---- MODULE Spec2Model ----
(***************************************************************************)
(* relicense: the template engine of src/src/relicense/templates and the   *)
(* identifier gate of src/src/relicense/cli.py.                            *)
(*                                                                         *)
(* A Python str is a finite sequence of one-character strings.  An         *)
(* optional value (str | None) is a sequence of length 0 (None) or 1.      *)
(***************************************************************************)
EXTENDS Naturals, Sequences, FiniteSets

VARIABLES REMAPPED_LICENSES, ALL_LICENSES, lic, loads, applied, ret, cli

vars == <<REMAPPED_LICENSES, ALL_LICENSES, lic, loads, applied, ret, cli>>

(***************************************************************************)
(* Bounds of the model.                                                    *)
(***************************************************************************)
\* a template file is the concatenation of at most MaxFrag fragments
MaxFrag == 3
\* apply_variable calls made on one License object
MaxApply == 2
\* the number of fragments in a template file where the directory holds
\* several
MaxFragList == 1
\* the number of fragments in the template file where two objects are used
MaxFragShare == 1

(***************************************************************************)
(* Characters and strings.                                                 *)
(***************************************************************************)
Chars == {"%", "A", "Y", "v", " ", "\n", "\r"}

\* code points, the order Python compares str by
Ord(c) ==
  CASE c = "\n" -> 10
    [] c = "\r" -> 13
    [] c = " " -> 32
    [] c = "%" -> 37
    [] c = "A" -> 65
    [] c = "F" -> 70
    [] c = "I" -> 73
    [] c = "L" -> 76
    [] c = "M" -> 77
    [] c = "P" -> 80
    [] c = "T" -> 84
    [] c = "W" -> 87
    [] c = "Y" -> 89
    [] c = "v" -> 118

\* str.isspace() on the characters of the model
Whitespace == {" ", "\n", "\r"}

\* the line boundaries of str.splitlines() among the characters of the model
LineBreaks == {"\n", "\r"}

None == <<>>
Some(x) == <<x>>

\* s[p:] starts with m (p is 1-based)
StartsAt(s, p, m) ==
  /\ p + Len(m) - 1 <= Len(s)
  /\ SubSeq(s, p, p + Len(m) - 1) = m

\* Python's str < str
LexLess(a, b) ==
  \E k \in 1..(Len(b)) :
    /\ k <= Len(a) + 1
    /\ \A j \in 1..(k - 1) : a[j] = b[j]
    /\ \/ k = Len(a) + 1
       \/ (k <= Len(a) /\ Ord(a[k]) < Ord(b[k]))

\* str.rstrip()
RECURSIVE rstrip(_)
rstrip(s) ==
  IF s = <<>> THEN <<>>
  ELSE IF s[Len(s)] \in Whitespace THEN rstrip(SubSeq(s, 1, Len(s) - 1))
  ELSE s

\* str.lstrip()
RECURSIVE lstrip(_)
lstrip(s) ==
  IF s = <<>> THEN <<>>
  ELSE IF s[1] \in Whitespace THEN lstrip(Tail(s))
  ELSE s

\* str.strip()
strip(s) == rstrip(lstrip(s))

\* str.replace(old, new) from position p on: left to right, non-overlapping
RECURSIVE ReplaceFrom(_, _, _, _)
ReplaceFrom(s, old, new, p) ==
  IF p > Len(s) THEN <<>>
  ELSE IF StartsAt(s, p, old) THEN new \o ReplaceFrom(s, old, new, p + Len(old))
  ELSE <<s[p]>> \o ReplaceFrom(s, old, new, p + 1)

\* a variant that replaces the first occurrence only (str.replace(old, new, 1))
RECURSIVE ReplaceFirstFrom(_, _, _, _)
ReplaceFirstFrom(s, old, new, p) ==
  IF p > Len(s) THEN <<>>
  ELSE IF StartsAt(s, p, old) THEN new \o SubSeq(s, p + Len(old), Len(s))
  ELSE <<s[p]>> \o ReplaceFirstFrom(s, old, new, p + 1)

replace_first(s, old, new) == ReplaceFirstFrom(s, old, new, 1)

\* str.replace(old, new); old is never empty here
replace(s, old, new) == ReplaceFrom(s, old, new, 1)

\* f"%%{variable}%%"
Marker(variable) == <<"%", "%">> \o variable \o <<"%", "%">>

\* str.splitlines(): the lines of s from position p on, cur the line being read
RECURSIVE SplitFrom(_, _, _)
SplitFrom(s, p, cur) ==
  IF p > Len(s) THEN (IF cur = <<>> THEN <<>> ELSE <<cur>>)
  ELSE IF s[p] = "\r" /\ p < Len(s) /\ s[p + 1] = "\n"
    THEN <<cur>> \o SplitFrom(s, p + 2, <<>>)
  ELSE IF s[p] \in LineBreaks THEN <<cur>> \o SplitFrom(s, p + 1, <<>>)
  ELSE SplitFrom(s, p + 1, Append(cur, s[p]))

\* the lines of a rendered text: s.split("\n")
RECURSIVE SplitNewlineFrom(_, _, _)
SplitNewlineFrom(s, p, cur) ==
  IF p > Len(s) THEN <<cur>>
  ELSE IF s[p] = "\n" THEN <<cur>> \o SplitNewlineFrom(s, p + 1, <<>>)
  ELSE SplitNewlineFrom(s, p + 1, Append(cur, s[p]))

splitlines(s) == SplitFrom(s, 1, <<>>)

\* "\n".join(lines)
RECURSIVE join(_)
join(lines) ==
  IF lines = <<>> THEN <<>>
  ELSE IF Len(lines) = 1 THEN lines[1]
  ELSE lines[1] \o <<"\n">> \o join(Tail(lines))

\* what a text-mode read (newline=None) makes of the file's line ends:
\* "\r\n" and "\r" are read as "\n"
RECURSIVE TranslateFrom(_, _)
TranslateFrom(s, p) ==
  IF p > Len(s) THEN <<>>
  ELSE IF s[p] = "\r" /\ p < Len(s) /\ s[p + 1] = "\n"
    THEN <<"\n">> \o TranslateFrom(s, p + 2)
  ELSE IF s[p] = "\r" THEN <<"\n">> \o TranslateFrom(s, p + 1)
  ELSE <<s[p]>> \o TranslateFrom(s, p + 1)

universal_newlines(s) == TranslateFrom(s, 1)

\* sep.join(names) for a list of identifiers: the names with sep between them
RECURSIVE join_names(_, _)
join_names(sep, names) ==
  IF names = <<>> THEN <<>>
  ELSE IF Len(names) = 1 THEN names
  ELSE <<names[1], sep>> \o join_names(sep, Tail(names))

\* re.findall(r"%%(.*?)%%", s) from position p on: the captured groups of the
\* leftmost matches, the group as short as possible and without "\n"
RECURSIVE FindAllFrom(_, _)
FindAllFrom(s, p) ==
  IF p + 3 > Len(s) THEN <<>>
  ELSE IF s[p] = "%" /\ s[p + 1] = "%"
    THEN LET closing == {j \in (p + 2)..(Len(s) - 1) :
                           /\ s[j] = "%"
                           /\ s[j + 1] = "%"
                           /\ \A k \in (p + 2)..(j - 1) : s[k] # "\n"}
         IN IF closing = {} THEN FindAllFrom(s, p + 1)
            ELSE LET j == CHOOSE x \in closing : \A y \in closing : x <= y
                 IN <<SubSeq(s, p + 2, j - 1)>> \o FindAllFrom(s, j + 2)
  ELSE FindAllFrom(s, p + 1)

findall(s) == FindAllFrom(s, 1)

\* sorted(list(variables)) of a set of str
RECURSIVE sorted(_)
sorted(S) ==
  IF S = {} THEN <<>>
  ELSE LET least == CHOOSE x \in S : \A y \in S \ {x} : LexLess(x, y)
       IN <<least>> \o sorted(S \ {least})

\* the elements of a list in the order of their first appearance
RECURSIVE FirstAppearances(_, _)
FirstAppearances(l, seen) ==
  IF l = <<>> THEN <<>>
  ELSE IF l[1] \in seen \/ l[1] = <<>> THEN FirstAppearances(Tail(l), seen)
  ELSE <<l[1]>> \o FirstAppearances(Tail(l), seen \cup {l[1]})

(***************************************************************************)
(* The inputs of the model.                                                *)
(***************************************************************************)
\* the identifiers callers pass; which of them name a template file is
\* decided by the template directory (REMAPPED_LICENSES)
Idents == {"MIT", "WTFPL", "bogus"}

\* the stems of the *.template files the directory can hold
Stems == {"MIT", "WTFPL"}

\* an identifier as the characters of the str
Spelling(id) ==
  CASE id = "MIT" -> <<"M", "I", "T">>
    [] id = "WTFPL" -> <<"W", "T", "F", "P", "L">>
    [] id = "bogus" -> <<"b", "o", "g", "u", "s">>

\* the text a user has typed when the shell asks for completions
Incompletes == { <<>>, <<"M">>, <<"W">>, <<"M", "I", "T">>, <<"b">> }

\* the orders in which glob() can yield the files of the stems in K
Orders(K) ==
  {o \in [1..Cardinality(K) -> K] :
     \A a, b \in 1..Cardinality(K) : a # b => o[a] # o[b]}

\* the License objects of the model
Insts == {1, 2}

\* the pieces template files are made of
Fragments ==
  { <<"%", "%", "A", "%", "%">>,
    <<"%", "%", "Y", "%", "%">>,
    <<"%", "%">>,
    <<"%">>,
    <<"A">>,
    <<" ">>,
    <<"\n">>,
    <<"\r">>,
    <<"%", "%", " ", "A", " ", "%", "%">> }

RECURSIVE Concats(_)
Concats(n) ==
  IF n = 0 THEN {<<>>}
  ELSE LET shorter == Concats(n - 1)
       IN shorter \cup {t \o f : t \in shorter, f \in Fragments}

TemplateTexts == Concats(MaxFrag)

\* the variable names callers pass to apply_variable
Names == { <<"A">>, <<"Y">> }

\* the values callers pass to apply_variable
Values == { <<>>, <<"v">>, <<"v", "%", "%", "Y", "%", "%">> }

(***************************************************************************)
(* relicense.templates                                                     *)
(***************************************************************************)
NoLicense == [exists |-> FALSE, spdx |-> "", template |-> None]

\* the command main before it is invoked: the names it got from
\* extract_template, the prompts it has made and the text it has written
CliIdle == [pc |-> "idle", template |-> <<>>, asked |-> <<>>, output |-> None]

NoReturn ==
  [op |-> "", inst |-> 0, err |-> "", errname |-> "", text |-> None, list |-> <<>>,
   ids |-> <<>>]

\* read_template, trusting the caller's identifier
read_template_unchecked(name) ==
  IF name \in DOMAIN REMAPPED_LICENSES
    THEN [err |-> "", errname |-> "",
          text |-> universal_newlines(REMAPPED_LICENSES[name]), opened |-> 1]
    ELSE [err |-> "", errname |-> "", text |-> <<>>, opened |-> 1]

\* read_template(name): the file's text as f.read() returns it, or ValueError
\* naming the identifier;
\* opened counts the template files opened
read_template(name) ==
  IF name \notin DOMAIN REMAPPED_LICENSES
    THEN [err |-> "ValueError", errname |-> name, text |-> <<>>, opened |-> 0]
    ELSE [err |-> "", errname |-> "",
          text |-> universal_newlines(REMAPPED_LICENSES[name]), opened |-> 1]

\* License.read without the cache test
read_uncached(self) ==
  LET r == read_template(self.spdx)
  IN IF r.err # ""
       THEN [err |-> r.err, errname |-> r.errname, template |-> self.template,
             val |-> None, opened |-> r.opened]
       ELSE [err |-> "", errname |-> "", template |-> Some(r.text),
             val |-> Some(r.text), opened |-> r.opened]

\* License.read: the outcome of the call on the object self
read(self) ==
  IF self.template = None
    THEN LET r == read_template(self.spdx)
         IN IF r.err # ""
              THEN [err |-> r.err, errname |-> r.errname, template |-> self.template,
                    val |-> None, opened |-> r.opened]
              ELSE [err |-> "", errname |-> "", template |-> Some(r.text),
                    val |-> Some(r.text), opened |-> r.opened]
    ELSE [err |-> "", errname |-> "", template |-> self.template,
          val |-> self.template, opened |-> 0]

\* the object after the load-if-absent prologue of apply_variable and get_result
Loaded(self) ==
  IF self.template = None THEN read(self)
  ELSE [err |-> "", errname |-> "", template |-> self.template,
        val |-> self.template, opened |-> 0]

\* License.apply_variable replacing one occurrence only
apply_variable_first(self, variable, value) ==
  LET r == Loaded(self)
  IN IF r.err # "" THEN r
     ELSE [r EXCEPT !.template = Some(replace_first(r.val[1], Marker(variable), value)),
                    !.val = None]

\* License.apply_variable that scans its own output once more
apply_variable_rescan(self, variable, value) ==
  LET r == Loaded(self)
  IN IF r.err # "" THEN r
     ELSE [r EXCEPT !.template =
                      Some(replace(replace(r.val[1], Marker(variable), value),
                                   Marker(variable), value)),
                    !.val = None]

\* License.apply_variable that substitutes into the stored template file
apply_variable_reload(self, variable, value) ==
  LET r == read_uncached(self)
  IN IF r.err # "" THEN r
     ELSE [r EXCEPT !.template = Some(replace(r.val[1], Marker(variable), value)),
                    !.val = None, !.opened = IF self.template = None THEN 1 ELSE 0]

\* License.apply_variable
apply_variable(self, variable, value) ==
  LET r == Loaded(self)
  IN IF r.err # "" THEN r
     ELSE [r EXCEPT !.template = Some(replace(r.val[1], Marker(variable), value)),
                    !.val = None]

\* the body of get_result without the per-line rstrip
NormalizeNoLineStrip(templates) == rstrip(join(splitlines(templates)))

\* the body of get_result with line.strip() for line.rstrip()
NormalizeStripLines(templates) ==
  LET lines == splitlines(templates)
      new_templates == [k \in 1..Len(lines) |-> strip(lines[k])]
  IN rstrip(join(new_templates))

\* the body of get_result: lines right-stripped, joined by "\n", right-stripped
Normalize(templates) ==
  LET lines == splitlines(templates)
      new_templates == [k \in 1..Len(lines) |-> rstrip(lines[k])]
  IN rstrip(join(new_templates))

\* License.get_result that keeps the normalized text in the object
get_result_storing(self) ==
  LET r == Loaded(self)
  IN IF r.err # "" THEN r
     ELSE [r EXCEPT !.template = Some(Normalize(r.val[1])),
                    !.val = Some(Normalize(r.val[1]))]

\* License.get_result
get_result(self) ==
  LET r == Loaded(self)
  IN IF r.err # "" THEN r
     ELSE [r EXCEPT !.val = Some(Normalize(r.val[1]))]

\* the body of extract_template without sorted()
ExtractUnsorted(template) ==
  LET matched == findall(template)
  IN FirstAppearances([k \in 1..Len(matched) |-> strip(matched[k])], {})

\* the body of extract_template without the test that drops empty names
ExtractKeepEmpty(template) ==
  LET matched == findall(template)
  IN IF matched = <<>> THEN <<>>
     ELSE sorted({strip(matched[k]) : k \in 1..Len(matched)})

\* the body of extract_template: the stripped, non-empty, distinct names, sorted
ExtractVariables(template) ==
  LET matched == findall(template)
  IN IF matched = <<>> THEN <<>>
     ELSE LET variables == {strip(matched[k]) : k \in 1..Len(matched)} \ {<<>>}
          IN sorted(variables)

\* License.extract_template
extract_template(self) ==
  LET r == read(self)
  IN IF r.err # "" THEN [r EXCEPT !.val = <<>>]
     ELSE [r EXCEPT !.val = ExtractVariables(r.val[1])]

(***************************************************************************)
(* The state machine.                                                      *)
(***************************************************************************)
\* the template directory holds one known identifier
InitStore ==
  /\ REMAPPED_LICENSES \in [{"MIT"} -> TemplateTexts]
  /\ ALL_LICENSES = <<"MIT">>

InitObjects ==
  /\ lic = [i \in Insts |-> NoLicense]
  /\ loads = [i \in Insts |-> 0]
  /\ applied = [i \in Insts |-> <<>>]
  /\ ret = NoReturn
  /\ cli = CliIdle

Init == InitStore /\ InitObjects

Live(i) == lic[i].exists

\* License(spdx), called directly
Construct(i, spdx) ==
  /\ ~Live(i)
  /\ lic' = [lic EXCEPT ![i] = [exists |-> TRUE, spdx |-> spdx, template |-> None]]
  /\ ret' = [NoReturn EXCEPT !.op = "init", !.inst = i]
  /\ UNCHANGED <<REMAPPED_LICENSES, ALL_LICENSES, cli, loads, applied>>

\* LicenseParameter.convert(value) of a str value
Convert(i, value) ==
  /\ ~Live(i)
  /\ IF \A k \in 1..Len(ALL_LICENSES) : ALL_LICENSES[k] # value
       THEN /\ ret' = [NoReturn EXCEPT !.op = "convert", !.inst = i,
                                       !.err = "BadParameter", !.errname = value,
                                       !.ids = join_names(", ", ALL_LICENSES)]
            /\ UNCHANGED lic
       ELSE /\ lic' = [lic EXCEPT ![i] =
                         [exists |-> TRUE, spdx |-> value, template |-> None]]
            /\ ret' = [NoReturn EXCEPT !.op = "convert", !.inst = i]
  /\ UNCHANGED <<REMAPPED_LICENSES, ALL_LICENSES, cli, loads, applied>>

\* the effect of a call's outcome where _template is held by the class
EffectOnClass(i, r) ==
  /\ lic' = [j \in Insts |-> [lic[j] EXCEPT !.template = r.template]]
  /\ loads' = [loads EXCEPT ![i] = @ + r.opened]

\* the effect of a call's outcome r on the object i
Effect(i, r) ==
  /\ lic' = [lic EXCEPT ![i].template = r.template]
  /\ loads' = [loads EXCEPT ![i] = @ + r.opened]

Read(i) ==
  /\ Live(i)
  /\ LET r == read(lic[i])
     IN /\ Effect(i, r)
        /\ ret' = [NoReturn EXCEPT !.op = "read", !.inst = i, !.err = r.err,
                                   !.errname = r.errname, !.text = r.val]
  /\ UNCHANGED <<REMAPPED_LICENSES, ALL_LICENSES, cli, applied>>

\* the call license.apply_variable(variable, value) on the object i
ApplyCall(i, variable, value) ==
  /\ LET r == apply_variable(lic[i], variable, value)
         b == Loaded(lic[i])
     IN /\ Effect(i, r)
        /\ ret' = [NoReturn EXCEPT !.op = "apply_variable", !.inst = i,
                                   !.err = r.err, !.errname = r.errname]
        /\ applied' =
             IF r.err # "" THEN applied
             ELSE [applied EXCEPT ![i] =
                     Append(@, [variable |-> variable, value |-> value,
                                before |-> b.val[1]])]

ApplyVariable(i, variable, value) ==
  /\ Live(i)
  /\ Len(applied[i]) < MaxApply
  /\ ApplyCall(i, variable, value)
  /\ UNCHANGED <<REMAPPED_LICENSES, ALL_LICENSES, cli>>

\* the call license.get_result() on the object i
GetResultCall(i) ==
  /\ LET r == get_result(lic[i])
     IN /\ Effect(i, r)
        /\ ret' = [NoReturn EXCEPT !.op = "get_result", !.inst = i, !.err = r.err,
                                   !.errname = r.errname, !.text = r.val]

GetResult(i) ==
  /\ Live(i)
  /\ GetResultCall(i)
  /\ UNCHANGED <<REMAPPED_LICENSES, ALL_LICENSES, cli, applied>>

\* the call license.extract_template() on the object i
ExtractCall(i) ==
  /\ LET r == extract_template(lic[i])
     IN /\ Effect(i, r)
        /\ ret' = [NoReturn EXCEPT !.op = "extract_template", !.inst = i,
                                   !.err = r.err, !.errname = r.errname,
                                   !.list = r.val]

ExtractTemplate(i) ==
  /\ Live(i)
  /\ ExtractCall(i)
  /\ UNCHANGED <<REMAPPED_LICENSES, ALL_LICENSES, cli, applied>>

\* the calls a program makes on the License object i
Calls(i) ==
  \/ \E spdx \in Idents : Construct(i, spdx)
  \/ \E value \in Idents : Convert(i, value)
  \/ Read(i)
  \/ \E variable \in Names, value \in Values : ApplyVariable(i, variable, value)
  \/ GetResult(i)
  \/ ExtractTemplate(i)

\* a program that uses one License object
Next == Calls(1)

Spec == Init /\ [][Next]_vars

\* a program that uses two License objects
InitShare ==
  /\ REMAPPED_LICENSES \in [{"MIT"} -> Concats(MaxFragShare)]
  /\ ALL_LICENSES = <<"MIT">>
  /\ InitObjects

NextShare == Calls(1) \/ Calls(2)

SpecShare == InitShare /\ [][NextShare]_vars

(***************************************************************************)
(* relicense.cli: the command main.                                        *)
(***************************************************************************)
\* the response that nullifies a variable: "[empty]"
Nullify == <<"[", "e", "m", "p", "t", "y", "]">>

\* the lines a user types at a prompt
Typed == { <<>>, <<" ">>, <<"v">>, <<" ", "v">>, Nullify }

\* Prompt.ask(...): the typed line as the prompt hands it over, stripped
PromptAsk(typed) == strip(typed)

\* the body of main's loop for one response: the value it passes to
\* apply_variable, or None when it skips the variable
prompt_value(response) ==
  LET value == strip(response)
  IN IF value = <<>> THEN None
     ELSE IF value = Nullify THEN Some(<<>>)
     ELSE Some(value)

\* main(license, output) up to the loop: template = license.extract_template()
MainStart ==
  /\ cli.pc = "idle"
  /\ Live(1)
  /\ ExtractCall(1)
  /\ LET r == extract_template(lic[1])
     IN cli' = IF r.err # "" THEN [cli EXCEPT !.pc = "raised"]
               ELSE [cli EXCEPT !.pc = "prompt", !.template = r.val]
  /\ UNCHANGED <<REMAPPED_LICENSES, ALL_LICENSES, applied>>

\* one turn of the loop over template: prompt for the next variable, then
\* skip it, nullify it or apply the response
MainPrompt(typed) ==
  /\ cli.pc = "prompt"
  /\ Len(cli.asked) < Len(cli.template)
  /\ LET variable == cli.template[Len(cli.asked) + 1]
         response == PromptAsk(typed)
         value == prompt_value(response)
     IN /\ cli' = [cli EXCEPT !.asked =
                     Append(@, [variable |-> variable, response |-> response])]
        /\ IF value = None
             THEN UNCHANGED <<lic, loads, applied, ret>>
             ELSE ApplyCall(1, variable, value[1])
  /\ UNCHANGED <<REMAPPED_LICENSES, ALL_LICENSES>>

\* after the loop: output.write_text(license.get_result())
MainWrite ==
  /\ cli.pc = "prompt"
  /\ Len(cli.asked) = Len(cli.template)
  /\ GetResultCall(1)
  /\ LET r == get_result(lic[1])
     IN cli' = IF r.err # "" THEN [cli EXCEPT !.pc = "raised"]
               ELSE [cli EXCEPT !.pc = "done", !.output = r.val]
  /\ UNCHANGED <<REMAPPED_LICENSES, ALL_LICENSES, applied>>

\* LicenseParameter.get_metavar
GetMetavar ==
  /\ ret' = [NoReturn EXCEPT !.op = "get_metavar",
                              !.ids = join_names(" | ", ALL_LICENSES)]
  /\ UNCHANGED <<REMAPPED_LICENSES, ALL_LICENSES, cli, lic, loads, applied>>

\* LicenseParameter.shell_complete(incomplete): one item per matching name
ShellComplete(incomplete) ==
  /\ LET startswith(license_name) == StartsAt(Spelling(license_name), 1, incomplete)
     IN ret' = [NoReturn EXCEPT !.op = "shell_complete",
                                !.ids = SelectSeq(ALL_LICENSES, startswith)]
  /\ UNCHANGED <<REMAPPED_LICENSES, ALL_LICENSES, cli, lic, loads, applied>>

\* the template directory holds any of the stems, found in any order
InitList ==
  /\ \E K \in (SUBSET Stems) \ {{}} :
       /\ REMAPPED_LICENSES \in [K -> Concats(MaxFragList)]
       /\ ALL_LICENSES \in Orders(K)
  /\ InitObjects

\* the places where the command line shows the known identifiers
NextList ==
  \/ \E value \in Idents : Convert(1, value)
  \/ GetMetavar
  \/ \E incomplete \in Incompletes : ShellComplete(incomplete)

SpecList == InitList /\ [][NextList]_vars

\* one run of the command: --license is converted, then main runs
NextCli ==
  \/ \E value \in Idents : Convert(1, value)
  \/ MainStart
  \/ \E typed \in Typed : MainPrompt(typed)
  \/ MainWrite

SpecCli == Init /\ [][NextCli]_vars

(***************************************************************************)
(* Vocabulary of the properties.                                           *)
(***************************************************************************)
Known == DOMAIN REMAPPED_LICENSES

LicenseOps == {"read", "apply_variable", "get_result", "extract_template"}

\* the call that has just returned normally was op on the object i
Returned(op, i) == ret.op = op /\ ret.inst = i /\ ret.err = ""

\* the template of the object i, as read_template returns it
Original(i) == universal_newlines(REMAPPED_LICENSES[lic[i].spdx])

\* the text held by a loaded object
Text(i) == lic[i].template[1]

IsLoaded(i) == lic[i].template # None

\* the latest apply_variable call on the object i
LastApplied(i) == applied[i][Len(applied[i])]

\* the positions at which m occurs in t
Occ(t, m) == {p \in 1..Len(t) : StartsAt(t, p, m)}

\* the occurrences taken from left to right, each the first one that does not
\* overlap one already taken
Taken(t, m) ==
  CHOOSE S \in SUBSET Occ(t, m) :
    /\ \A p, q \in S : p < q => p + Len(m) <= q
    /\ \A p \in Occ(t, m) \ S : \E q \in S : q < p /\ p < q + Len(m)

RECURSIVE Flatten(_)
Flatten(parts) ==
  IF parts = <<>> THEN <<>> ELSE parts[1] \o Flatten(Tail(parts))

\* t with the occurrences of m at the positions S replaced by v
Substituted(t, S, m, v) ==
  Flatten([p \in 1..Len(t) |->
             IF p \in S THEN v
             ELSE IF \E q \in S : q < p /\ p < q + Len(m) THEN <<>>
             ELSE <<t[p]>>])

\* t with every occurrence of m replaced by v
EveryReplaced(t, m, v) == Substituted(t, Taken(t, m), m, v)

\* the elements of a list
Elems(l) == {l[k] : k \in 1..Len(l)}

(***************************************************************************)
(* C1  Constructing a License succeeds for every known identifier and      *)
(* fails for every other string, so that no License object exists whose    *)
(* identifier is outside the known set.                                    *)
(***************************************************************************)
C1_ConstructionGate ==
  /\ \A i \in Insts : Live(i) => lic[i].spdx \in Known
  /\ ret.op \in {"init", "convert"} /\ ret.err # "" => ret.errname \notin Known

(***************************************************************************)
(* C2  The template file of a License object is opened at most once, and   *)
(* exactly once as soon as one operation has returned; a loaded text is    *)
(* never unloaded nor loaded afresh, read, extract_template and get_result *)
(* leave it as it is, and read returns the cached text, the same on        *)
(* consecutive calls.                                                      *)
(***************************************************************************)
C2_Step(i) ==
  /\ loads'[i] <= 1
  /\ loads'[i] = 1 <=> lic'[i].template # None
  /\ ret'.inst = i /\ ret'.op \in LicenseOps /\ ret'.err = "" => loads'[i] = 1
  /\ IsLoaded(i) => lic'[i].template # None /\ loads'[i] = loads[i]
  /\ IsLoaded(i) /\ ret'.inst = i /\ ret'.op \in LicenseOps \ {"apply_variable"}
       => lic'[i].template = lic[i].template
  /\ ret'.inst = i /\ ret'.op = "read" /\ ret'.err = ""
       => ret'.text = lic'[i].template
  /\ Returned("read", i) /\ ret'.inst = i /\ ret'.op = "read"
       => ret'.text = ret.text

\* C2: every step keeps the file opened at most once and the loaded text cached
C2_LoadedOnce == [][\A i \in Insts : C2_Step(i)]_vars

\* read has returned the text of an object that apply_variable has changed
C2_Witness ==
  /\ Returned("read", 1)
  /\ loads[1] = 1
  /\ applied[1] # <<>>
  /\ ret.text # Some(Original(1))

(***************************************************************************)
(* C3  apply_variable(name, value) replaces every occurrence of %%name%%   *)
(* in the current text by value (occurrences taken left to right, an       *)
(* occurrence overlapping a replaced one being consumed with it); when     *)
(* %%name%% does not occur the text is unchanged; no error is raised.      *)
(***************************************************************************)
C3_ReplacesEvery ==
  \A i \in Insts :
    /\ ret.inst = i /\ ret.op = "apply_variable" /\ lic[i].spdx \in Known
         => ret.err = ""
    /\ Returned("apply_variable", i) =>
         LET e == LastApplied(i)
             m == Marker(e.variable)
         IN /\ Text(i) = EveryReplaced(e.before, m, e.value)
            /\ Occ(e.before, m) = {} => Text(i) = e.before
            /\ e.value = <<"v">> => Occ(Text(i), m) = {}

\* a text holding the marker three times has had all three replaced
C3_Witness ==
  /\ Returned("apply_variable", 1)
  /\ Cardinality(Occ(LastApplied(1).before, Marker(LastApplied(1).variable))) = 3
  /\ LastApplied(1).value = <<"v">>
  /\ Text(1) = <<"v", "v", "v">>

(***************************************************************************)
(* C4  extract_template returns the names in strictly ascending            *)
(* lexicographic order, hence without duplicates, however often and in     *)
(* whatever order the markers appear; a second call on the unchanged       *)
(* object returns the same list.                                           *)
(***************************************************************************)
Ascending(l) == \A k \in 1..(Len(l) - 1) : LexLess(l[k], l[k + 1])

C4_Sorted ==
  \A i \in Insts : Returned("extract_template", i) =>
    /\ Ascending(ret.list)
    /\ Elems(ret.list) =
         {strip(n) : n \in Elems(findall(Text(i)))} \ {<<>>}

C4_Step ==
  \A i \in Insts :
    Returned("extract_template", i) /\ ret'.inst = i /\ ret'.op = "extract_template"
      => ret'.list = ret.list

\* C4: every returned list is sorted without duplicates, and a repeated call
\* returns the same list
C4_SortedAndStable == []C4_Sorted /\ [][C4_Step]_vars

\* Y appears first and A twice after it; the list is A, Y
C4_Witness ==
  /\ Returned("extract_template", 1)
  /\ findall(Text(1)) = << <<"Y">>, <<"A">>, <<"A">> >>
  /\ ret.list = << <<"A">>, <<"Y">> >>

(***************************************************************************)
(* C5  The string get_result returns has no line ending in whitespace,     *)
(* does not end in whitespace or a newline, has its lines separated by     *)
(* one "\n" each, and keeps every line of the text up to its last          *)
(* non-whitespace character, leading whitespace included.                  *)
(***************************************************************************)
HasContent(line) == \E k \in 1..Len(line) : line[k] \notin Whitespace

\* the number of lines up to the last one that has content
LastContentLine(lines) ==
  IF \E k \in 1..Len(lines) : HasContent(lines[k])
    THEN CHOOSE k \in 1..Len(lines) :
           /\ HasContent(lines[k])
           /\ \A j \in (k + 1)..Len(lines) : ~HasContent(lines[j])
    ELSE 0

\* out is line without its trailing whitespace
TrailingStripped(line, out) ==
  /\ Len(out) <= Len(line)
  /\ out = SubSeq(line, 1, Len(out))
  /\ out = <<>> \/ out[Len(out)] \notin Whitespace
  /\ \A k \in (Len(out) + 1)..Len(line) : line[k] \in Whitespace

C5_Rendered ==
  \A i \in Insts : Returned("get_result", i) =>
    LET r == ret.text[1]
        lines == splitlines(Text(i))
        out == SplitNewlineFrom(r, 1, <<>>)
        n == LastContentLine(lines)
    IN /\ \A k \in 1..Len(out) : out[k] = <<>> \/ out[k][Len(out[k])] \notin Whitespace
       /\ r = <<>> \/ r[Len(r)] \notin Whitespace
       /\ \A k \in 1..Len(r) : r[k] # "\r"
       /\ n = 0 => r = <<>>
       /\ n > 0 => Len(out) = n
       /\ n > 0 => \A k \in 1..n : TrailingStripped(lines[k], out[k])

\* an indented line with trailing spaces: the indentation is kept
C5_Witness ==
  /\ Returned("get_result", 1)
  /\ Text(1) = <<" ", "A", " ">>
  /\ ret.text = Some(<<" ", "A">>)

(***************************************************************************)
(* C6  get_result leaves the in-memory text as it is (an unloaded object   *)
(* is left as read would leave it), returns the same string when called    *)
(* again, and its normalization is idempotent.                             *)
(***************************************************************************)
C6_Idempotent ==
  \A i \in Insts : Returned("get_result", i) =>
    /\ Normalize(ret.text[1]) = ret.text[1]
    /\ ret.text[1] = Normalize(Text(i))

C6_Step(i) ==
  ret'.inst = i /\ ret'.op = "get_result" /\ ret'.err = "" =>
    /\ IsLoaded(i) => lic'[i] = lic[i] /\ loads' = loads
    /\ ~IsLoaded(i) => lic'[i].template = Some(Original(i))
    /\ applied' = applied
    /\ Returned("get_result", i) => ret'.text = ret.text

\* C6: get_result changes nothing, repeats its result, and is idempotent
C6_RenderPure == []C6_Idempotent /\ [][\A i \in Insts : C6_Step(i)]_vars

\* a render that differs from the text the object still holds
C6_Witness ==
  /\ Returned("get_result", 1)
  /\ applied[1] # <<>>
  /\ ret.text # lic[1].template
  /\ Text(1) # Original(1)

(***************************************************************************)
(* C7  Two apply_variable calls with the same name.                        *)
(***************************************************************************)
\* the object i has had exactly two calls, both for the same name, whose
\* marker the text held before the first
TwiceSameName(i) ==
  /\ Len(applied[i]) = 2
  /\ applied[i][1].variable = applied[i][2].variable
  /\ Occ(applied[i][1].before, Marker(applied[i][1].variable)) # {}

\* C7 as claimed: the most recent call wins, the positions that held
\* %%name%% carry the second value
C7_LastWins ==
  \A i \in Insts : TwiceSameName(i) =>
    Text(i) = EveryReplaced(applied[i][1].before, Marker(applied[i][1].variable),
                            applied[i][2].value)

\* C7 amended: the first call wins.  After apply_variable(name, v1) the
\* positions that held %%name%% carry v1, and apply_variable(name, v2)
\* changes the text only where v1, alone or with the text around it, spells
\* %%name%% again; where it does not, the second call changes nothing.
C7_FirstWins ==
  \A i \in Insts : TwiceSameName(i) =>
    LET m == Marker(applied[i][1].variable)
        first == EveryReplaced(applied[i][1].before, m, applied[i][1].value)
    IN /\ applied[i][2].before = first
       /\ Text(i) = EveryReplaced(first, m, applied[i][2].value)
       /\ Occ(first, m) = {} => Text(i) = first

\* two different values applied for the same name: the text carries the first
C7_Witness ==
  /\ TwiceSameName(1)
  /\ applied[1][1].value = <<"v">>
  /\ applied[1][2].value = <<>>
  /\ Text(1) = EveryReplaced(applied[1][1].before, Marker(applied[1][1].variable), <<"v">>)
  /\ Text(1) # EveryReplaced(applied[1][1].before, Marker(applied[1][1].variable), <<>>)

(***************************************************************************)
(* C8  read_template fails for an identifier outside the known set with    *)
(* ValueError naming the identifier, before a template file is opened, and *)
(* succeeds for every known identifier; the License operation that met the *)
(* failure leaves the object unloaded.                                     *)
(***************************************************************************)
C8_NotFound ==
  \A i \in Insts :
    /\ Live(i) /\ lic[i].spdx \notin Known => ~IsLoaded(i) /\ loads[i] = 0
    /\ ret.inst = i /\ ret.op \in LicenseOps =>
         IF lic[i].spdx \in Known
           THEN ret.err = "" /\ IsLoaded(i) /\ loads[i] = 1
           ELSE /\ ret.err = "ValueError"
                /\ ret.errname = lic[i].spdx
                /\ ret.text = None
                /\ ret.list = <<>>

\* apply_variable has failed on an object with an unknown identifier
C8_Witness ==
  /\ ret.inst = 1
  /\ ret.op = "apply_variable"
  /\ ret.err = "ValueError"
  /\ ret.errname = "bogus"
  /\ lic[1].template = None

(***************************************************************************)
(* C9  Text inserted as a value and marker-shaped text in it.              *)
(***************************************************************************)
\* the template file of the object i names no variable Y, so that a marker
\* %%Y%% in its text can only have come from an inserted value
OriginalWithoutY(i) ==
  /\ lic[i].spdx \in Known
  /\ \A k \in 1..Len(Original(i)) : Original(i)[k] # "Y"

MarkerY == Marker(<<"Y">>)

\* the value that holds the marker %%Y%%
ValueWithMarker == <<"v">> \o MarkerY

\* C9 as claimed: a marker that is in the text only as part of an inserted
\* value is not replaced by the call that inserts it, nor by a later call,
\* nor reported by extract_template
C9_ValueLiteral ==
  \A i \in Insts :
    /\ Returned("apply_variable", i) =>
         Text(i) = EveryReplaced(LastApplied(i).before,
                                 Marker(LastApplied(i).variable), LastApplied(i).value)
    /\ Len(applied[i]) = 2 /\ OriginalWithoutY(i) /\ applied[i][2].variable = <<"Y">>
         => Text(i) = applied[i][2].before
    /\ Returned("extract_template", i) /\ OriginalWithoutY(i)
         => <<"Y">> \notin Elems(ret.list)

\* C9 amended: replacement is exact and single-pass.  The call that inserts
\* a value does not scan the inserted text again, so a marker in the value
\* is still in the text when the call returns, even the marker of the name
\* being applied; from then on the inserted text is ordinary text, and a
\* later apply_variable for that marker replaces it.
C9_SinglePass ==
  \A i \in Insts :
    /\ Returned("apply_variable", i) /\ LastApplied(i).value = ValueWithMarker =>
         LET e == LastApplied(i)
         IN /\ Text(i) = EveryReplaced(e.before, Marker(e.variable), e.value)
            /\ Occ(e.before, Marker(e.variable)) # {} => Occ(Text(i), MarkerY) # {}
    /\ /\ Len(applied[i]) = 2
       /\ applied[i][1].value = ValueWithMarker
       /\ Occ(applied[i][1].before, Marker(applied[i][1].variable)) # {}
       /\ applied[i][2].variable = <<"Y">>
       /\ applied[i][2].value # ValueWithMarker
       => /\ Occ(applied[i][2].before, MarkerY) # {}
          /\ Text(i) # applied[i][2].before
          /\ Text(i) = EveryReplaced(applied[i][2].before, MarkerY, applied[i][2].value)

\* %%Y%% came into a template without Y as the value of A, and the later
\* apply_variable("Y", "v") has replaced it
C9_Witness ==
  /\ Len(applied[1]) = 2
  /\ OriginalWithoutY(1)
  /\ applied[1][1].variable = <<"A">>
  /\ applied[1][1].value = ValueWithMarker
  /\ applied[1][2].variable = <<"Y">>
  /\ applied[1][2].value = <<"v">>
  /\ Occ(applied[1][2].before, MarkerY) # {}
  /\ Occ(Text(1), MarkerY) = {}

(***************************************************************************)
(* C10  End to end: a template whose markers are %%Y%% and then %%A%%      *)
(* yields the list A, Y; once a marker-free value has been applied to      *)
(* every name extract_template returns, in any order, get_result returns   *)
(* the normalized template with each marker replaced by its value, and no  *)
(* marker is left in it.                                                   *)
(***************************************************************************)
\* the value the object i has had applied for the name n
ValueOf(i, n) ==
  applied[i][CHOOSE k \in 1..Len(applied[i]) : applied[i][k].variable = n].value

\* every name of the template file (there is one at least) has been applied
\* once, with a marker-free value, and nothing else has
AllApplied(i) ==
  /\ lic[i].spdx \in Known
  /\ applied[i] # <<>>
  /\ {applied[i][k].variable : k \in 1..Len(applied[i])}
       = Elems(ExtractVariables(Original(i)))
  /\ Len(applied[i]) = Len(ExtractVariables(Original(i)))
  /\ \A k \in 1..Len(applied[i]) : findall(applied[i][k].value) = <<>>

\* t with the markers of the names replaced by their values, name by name
RECURSIVE Filled(_, _, _)
Filled(i, t, names) ==
  IF names = <<>> THEN t
  ELSE Filled(i, EveryReplaced(t, Marker(names[1]), ValueOf(i, names[1])), Tail(names))

\* C10: markers Y then A give the list A, Y; with every name applied the
\* render is the normalized, filled template and holds no marker
C10_EndToEnd ==
  \A i \in Insts :
    /\ Returned("extract_template", i)
         /\ FirstAppearances(findall(Text(i)), {}) = << <<"Y">>, <<"A">> >>
         => ret.list = << <<"A">>, <<"Y">> >>
    /\ Returned("get_result", i) /\ AllApplied(i) =>
         /\ ret.text[1] = Normalize(Filled(i, Original(i), ExtractVariables(Original(i))))
         /\ ExtractVariables(ret.text[1]) = <<>>

(***************************************************************************)
(* C11  For a text without a %%...%% marker extract_template returns the   *)
(* empty list and get_result returns the text verbatim but for its         *)
(* trailing whitespace: the whitespace at the end of each line and at the  *)
(* end of the text is removed and every other character is kept.           *)
(***************************************************************************)
\* t holds %%, then text without a newline, then %%
HasMarker(t) ==
  \E p, q \in 1..(Len(t) - 1) :
    /\ t[p] = "%" /\ t[p + 1] = "%"
    /\ p + 2 <= q
    /\ t[q] = "%" /\ t[q + 1] = "%"
    /\ \A k \in (p + 2)..(q - 1) : t[k] # "\n"

\* the character at p is whitespace with only whitespace after it in the
\* text, or in its line
IsTrailing(t, p) ==
  /\ t[p] \in Whitespace
  /\ \/ \A q \in (p + 1)..Len(t) : t[q] \in Whitespace
     \/ /\ t[p] \notin LineBreaks
        /\ \E e \in (p + 1)..Len(t) :
             /\ t[e] \in LineBreaks
             /\ \A q \in (p + 1)..(e - 1) : t[q] \in Whitespace \ LineBreaks

\* t without its trailing whitespace
Trimmed(t) ==
  Flatten([p \in 1..Len(t) |-> IF IsTrailing(t, p) THEN <<>> ELSE <<t[p]>>])

CallsMade(i) ==
  [k \in 1..Len(applied[i]) |-> <<applied[i][k].variable, applied[i][k].value>>]

\* the calls the prompts asked so far call for: none for an empty response,
\* (name, "") for [empty], (name, response) for any other
RECURSIVE CallsFor(_)
CallsFor(asked) ==
  IF asked = <<>> THEN <<>>
  ELSE LET a == Head(asked)
           this == IF a.response = <<>> THEN <<>>
                   ELSE IF a.response = Nullify THEN << <<a.variable, <<>>>> >>
                   ELSE << <<a.variable, a.response>> >>
       IN this \o CallsFor(Tail(asked))

\* the variables extract_template returned are prompted once each, in the
\* returned order
C12_Order ==
  cli.pc \in {"prompt", "done"} =>
    /\ cli.template = ExtractVariables(Original(1))
    /\ Len(cli.asked) <= Len(cli.template)
    /\ \A k \in 1..Len(cli.asked) : cli.asked[k].variable = cli.template[k]
    /\ cli.pc = "done" => Len(cli.asked) = Len(cli.template)

\* the apply_variable calls are exactly the ones the responses call for
C12_Calls == cli.pc \in {"prompt", "done"} => CallsMade(1) = CallsFor(cli.asked)

\* the marker of a skipped name is still in the written output
C12_Skipped ==
  cli.pc = "done" =>
    \A k \in 1..Len(cli.asked) :
      cli.asked[k].response = <<>> =>
        cli.asked[k].variable \in Elems(ExtractVariables(cli.output[1]))

\* right after the response [empty] the marker of the name is gone
C12_Nullified ==
  cli.pc = "prompt" /\ cli.asked # <<>>
    /\ cli.asked[Len(cli.asked)].response = Nullify =>
      cli.asked[Len(cli.asked)].variable \notin Elems(ExtractVariables(Text(1)))

\* C12: in the interactive front-end each variable returned by
\* extract_template is prompted exactly once in the returned order; an empty
\* response causes no apply_variable call for that name and its marker
\* remains in the written output; the response [empty] causes
\* apply_variable(name, "") and the marker is removed with nothing in its
\* place; any other response is applied as the value.
C12_Prompts == C12_Order /\ C12_Calls /\ C12_Skipped /\ C12_Nullified

(***************************************************************************)
(* C13: the identifiers as they are shown                                  *)
(***************************************************************************)
\* the identifiers of the last presentation, in the order shown
Shown ==
  IF ret.op = "shell_complete" THEN ret.ids
  ELSE [k \in 1..((Len(ret.ids) + 1) \div 2) |-> ret.ids[2 * k - 1]]

Presented ==
  \/ ret.op \in {"get_metavar", "shell_complete"}
  \/ ret.op = "convert" /\ ret.err = "BadParameter"

\* each identifier is shown at most once
C13_Once ==
  Presented => \A j, k \in 1..Len(Shown) : j # k => Shown[j] # Shown[k]

\* C13: whenever the known identifiers are presented (the invalid-license
\* message, the option metavar, the completion list) they appear in
\* lexicographically sorted order, whatever the order in which the template
\* files were discovered, and each identifier appears at most once.
C13_SortedDisplay ==
  Presented =>
    \A j, k \in 1..Len(Shown) :
      j < k => LexLess(Spelling(Shown[j]), Spelling(Shown[k]))

(***************************************************************************)
(* C14: License objects share no mutable state                             *)
(***************************************************************************)
\* a step in which apply_variable ran on the object i
Applies(i) == ret'.op = "apply_variable" /\ ret'.inst = i

\* apply_variable on one object leaves the store and every other object alone
C14_Step ==
  \A i \in Insts :
    Applies(i) =>
      /\ REMAPPED_LICENSES' = REMAPPED_LICENSES
      /\ ALL_LICENSES' = ALL_LICENSES
      /\ \A j \in Insts \ {i} : lic'[j] = lic[j]

\* an object nothing was applied to holds the text of its template file,
\* whatever was applied to other objects before or after it loaded
C14_Own ==
  \A j \in Insts :
    Live(j) /\ IsLoaded(j) /\ applied[j] = <<>> => Text(j) = Original(j)

\* C14: License instances share no mutable state: apply_variable calls on
\* one instance leave the store's mapping and stored text unchanged and
\* leave the text seen by every other instance unchanged, also for an
\* instance of the same identifier loaded before or after.
C14_NoSharing == []C14_Own /\ [][C14_Step]_vars

\* object 1 has replaced its marker; object 2 of the same identifier loaded
\* afterwards and holds the text of the file
C14_Witness ==
  /\ Live(1) /\ Live(2) /\ lic[1].spdx = lic[2].spdx
  /\ applied[1] # <<>> /\ applied[2] = <<>>
  /\ IsLoaded(1) /\ Returned("read", 2)
  /\ Text(1) # Original(1)
  /\ Text(2) = Original(2)

(***************************************************************************)
(* C15: no empty name, no delimiter inside a name                          *)
(***************************************************************************)
\* the text n holds the delimiter sequence %%
HasDelimiter(n) == \E p \in 1..(Len(n) - 1) : n[p] = "%" /\ n[p + 1] = "%"

\* C15: extract_template never returns an empty variable name: a marker
\* whose captured name is empty or whitespace only, such as %%%%, is filtered
\* out, and no returned name contains the delimiter sequence %% itself.
C15_NamesWellFormed ==
  \A i \in Insts :
    Returned("extract_template", i) =>
      \A k \in 1..Len(ret.list) :
        /\ ret.list[k] # <<>>
        /\ HasContent(ret.list[k])
        /\ ~HasDelimiter(ret.list[k])

\* the template %%%%%%A%% has been extracted: the empty name of %%%% is
\* dropped and A is returned
C15_Witness ==
  /\ Returned("extract_template", 1)
  /\ Text(1) = <<"%", "%", "%", "%", "%", "%", "A", "%", "%">>
  /\ findall(Text(1)) = << <<>>, <<"A">> >>
  /\ ret.list = << <<"A">> >>

(***************************************************************************)
(* C16: extraction and substitution agree on names                         *)
(***************************************************************************)
\* C16: for every name n that extract_template returns on the current text,
\* apply_variable(n, v) with a marker-free value v changes the text and
\* extract_template no longer returns n afterwards; also for a marker whose
\* captured name has surrounding whitespace, as in %% A %%.
C16_NamesAgree ==
  \A i \in Insts :
    Returned("apply_variable", i) /\ applied[i] # <<>> =>
      LET a == LastApplied(i)
      IN a.variable \in Elems(ExtractVariables(a.before)) /\ ~HasMarker(a.value) =>
           /\ Text(i) # a.before
           /\ a.variable \notin Elems(ExtractVariables(Text(i)))

====
